---- MODULE Spec2Model ----
(***************************************************************************)
(* A model of the Gainer bridge relayer (src/script.py): the source-chain  *)
(* event listener with its confirmation gate and hash de-duplication, the  *)
(* destination-chain transaction processor with its id de-duplication, the *)
(* rate-limited health monitor and the main loop that drives them.         *)
(*                                                                         *)
(* The two chains, the log filter of the source node and the health        *)
(* service are the environment: every RPC may succeed or fail.             *)
(***************************************************************************)
EXTENDS Integers, Sequences, FiniteSets, TLC

(* ------------------------------ bounds -------------------------------- *)

MaxHeight == 2        \* source chain heights explored: 1..MaxHeight
MaxDepth == 1         \* BLOCK_CONFIRMATIONS explored: 0..MaxDepth
MaxQueue == 2         \* log entries the filter holds between two polls
MaxCycles == 2        \* cycles of the main loop
MaxRelayCalls == 3    \* direct calls of process_deposit_event (RelaySpec)
MaxReportTime == 160  \* direct calls of report_status stop here (ReportSpec)
MaxPushes == 3        \* push attempts explored by ReportSpec
TickSeconds == 20     \* spacing of the direct calls of report_status
StartTime == 100      \* time.time() when the main loop is entered

(* ------------------------- program constants --------------------------- *)

checkin_interval == 60
POLL_INTERVAL_SECONDS == 15

(* --------------------------- the log entries --------------------------- *)

\* TokensDeposited log entries the source chain can carry.  h1 is a
\* transaction that emitted two events; a is an id deposited by two
\* different transactions.
Universe ==
  { [transactionHash |-> "h1", blockNumber |-> 1, transactionId |-> "a", logIndex |-> 0],
    [transactionHash |-> "h1", blockNumber |-> 1, transactionId |-> "b", logIndex |-> 1],
    [transactionHash |-> "h2", blockNumber |-> 2, transactionId |-> "a", logIndex |-> 0] }

Hashes == { e.transactionHash : e \in Universe }
Ids == { e.transactionId : e \in Universe }

\* outcomes of the calls to a node: answered, refused as disconnected, raised
ConnOutcomes == {"up", "down", "raise"}
FetchOutcomes == {"ok", "raise"}
SinkOutcomes == {"ok200", "non200", "unreachable"}

\* the destination calls of one relay, in the order the code makes them
RelaySteps == <<"nonce", "gasPrice", "build", "estimateGas", "sign", "broadcast">>

VARIABLES
  state,                   \* main: STARTING, RUNNING, SHUTTING_DOWN, FATAL, UNIT
  pc,                      \* position in the loop body: poll, relay, report
  H,                       \* source chain height
  emitted,                 \* log entries the source node has produced
  filterQueue,             \* entries the filter will hand out at the next poll
  block_confirmations,     \* listener.block_confirmations
  connected,               \* what is_connected() answered at startup, per chain
  processed_events,        \* listener.processed_events
  confirmed_events,        \* result of the last get_confirmed_events()
  idx,                     \* position of the for loop over confirmed_events
  processed_source_tx_ids, \* processor.processed_source_tx_ids
  destNonce,               \* transactions of the relayer mined on the destination
  broadcasts,              \* transactions the destination node accepted
  estimateGasBroken,       \* the destination node fails every estimate_gas
  last_checkin,            \* monitor.last_checkin
  now,                     \* time.time()
  pushLog,                 \* requests.post attempts: <<[t, status]>>
  pollLog,                 \* history: what the last poll read and returned
  returnedCount,           \* history: times each hash was returned by a poll
  seenPending,             \* history: entries a poll saw below the depth
  skippedDup,              \* history: hashes a poll skipped as already processed
  admitted,                \* history: the events polls returned, each with
                           \* whether the height its poll had read was at
                           \* least block_confirmations above its block
  relayLog,                \* history: the calls of process_deposit_event
  lateCalls                \* history: destination calls made for an id after
                           \* the destination had accepted a release for it

vars == << state, pc, H, emitted, filterQueue, block_confirmations, connected,
           processed_events, confirmed_events, idx, processed_source_tx_ids,
           destNonce, broadcasts, estimateGasBroken, last_checkin, now,
           pushLog, pollLog, returnedCount, seenPending, skippedDup,
           admitted, relayLog,
           lateCalls >>

srcVars == << H, emitted, filterQueue >>
listenerVars == << processed_events, confirmed_events, idx, pollLog,
                   returnedCount, seenPending, skippedDup, admitted >>
relayVars == << processed_source_tx_ids, broadcasts, relayLog, lateCalls >>
monitorVars == << last_checkin, pushLog >>

(* ------------------------------ helpers -------------------------------- *)

Range(s) == { s[i] : i \in 1..Len(s) }

(* ------------------------ BlockchainConnector -------------------------- *)

\* get_latest_block_number: 0 when the node is (still) unreachable after the
\* reconnect, the height when it answers; eth.block_number may also raise.
get_latest_block_number(conn) ==
  CASE conn = "down"  -> [raised |-> FALSE, value |-> 0]
    [] conn = "raise" -> [raised |-> TRUE, value |-> 0]
    [] OTHER          -> [raised |-> FALSE, value |-> H]

(* ------------------------ BridgeEventListener -------------------------- *)

\* the hash check left out
AlreadyProcessed_Never(tx_hash, processed) == FALSE

\* `if tx_hash in self.processed_events: continue`
AlreadyProcessed(tx_hash, processed) == tx_hash \in processed

\* the event's own block counted as its first confirmation
IsConfirmed_OffByOne(latest_block, blockNumber) ==
  (latest_block - blockNumber) + 1 >= block_confirmations

\* `if (latest_block - event['blockNumber']) >= self.block_confirmations`
IsConfirmed(latest_block, blockNumber) ==
  (latest_block - blockNumber) >= block_confirmations

\* the for loop over new_entries
RECURSIVE ScanEntries(_, _, _, _)
ScanEntries(new_entries, latest_block, processed, confirmed) ==
  IF new_entries = << >>
  THEN [processed_events |-> processed, confirmed_events |-> confirmed,
        skipped |-> {}]
  ELSE LET event == Head(new_entries)
           tx_hash == event.transactionHash
       IN  IF AlreadyProcessed(tx_hash, processed)
           THEN LET rest == ScanEntries(Tail(new_entries), latest_block,
                                        processed, confirmed)
                IN  [rest EXCEPT !.skipped = rest.skipped \cup {tx_hash}]
           ELSE IF IsConfirmed(latest_block, event.blockNumber)
                THEN ScanEntries(Tail(new_entries), latest_block,
                                 processed \cup {tx_hash}, Append(confirmed, event))
                ELSE ScanEntries(Tail(new_entries), latest_block, processed, confirmed)

\* no except clause: the exception reaches main
CatchPollError_Reraise(r) == r

\* `except Exception: return []`: what the loop did to processed_events stays
CatchPollError(r) ==
  IF r.raised
  THEN [r EXCEPT !.raised = FALSE, !.caught = TRUE, !.events = << >>]
  ELSE r

\* The body of the try block.  conn and fetch are the outcomes of the height
\* query and of get_new_entries(); badAt > 0 is the position of an entry whose
\* decoding raises, 0 when every entry decodes.
PollBody(conn, fetch, badAt) ==
  LET lb == get_latest_block_number(conn)
      base == [raised |-> FALSE, caught |-> FALSE, events |-> << >>,
               processed_events |-> processed_events,
               queue |-> filterQueue, latest_block |-> lb.value,
               scanned |-> << >>, skipped |-> {}]
  IN  IF lb.raised THEN [base EXCEPT !.raised = TRUE]
      ELSE IF lb.value = 0 THEN base
      ELSE IF fetch = "raise" THEN [base EXCEPT !.raised = TRUE]
      ELSE IF filterQueue = << >> THEN base
      ELSE LET new_entries == IF badAt = 0 THEN filterQueue
                              ELSE SubSeq(filterQueue, 1, badAt - 1)
               s == ScanEntries(new_entries, lb.value, processed_events, << >>)
           IN  [base EXCEPT !.raised = (badAt > 0),
                            !.events = s.confirmed_events,
                            !.processed_events = s.processed_events,
                            !.queue = << >>,
                            !.scanned = new_entries,
                            !.skipped = s.skipped]

get_confirmed_events(conn, fetch, badAt) ==
  CatchPollError(PollBody(conn, fetch, badAt))

(* ---------------------------- HealthMonitor ---------------------------- *)

\* `self.last_checkin = current_time` sits inside the try, after the post:
\* a RequestException skips it.
CheckinAfterPush(sink) ==
  IF sink = "unreachable" THEN last_checkin ELSE now

\* report_status: the monitor after the call
report_status(status, sink) ==
  IF now - last_checkin < checkin_interval
  THEN [last_checkin |-> last_checkin, pushLog |-> pushLog]
  ELSE [last_checkin |-> CheckinAfterPush(sink),
        pushLog |-> Append(pushLog, [t |-> now, status |-> status])]

(* ------------------------- TransactionProcessor ------------------------ *)

\* the idempotency check left out
IsAlreadyRelayed_Never(source_tx_id) == FALSE

\* `if source_tx_id in self.processed_source_tx_ids`
IsAlreadyRelayed(source_tx_id) == source_tx_id \in processed_source_tx_ids

\* the id never recorded
MarkRelayed_Never(source_tx_id, sent) == processed_source_tx_ids

\* the id recorded before the transaction is built and sent
MarkRelayed_BeforeSend(source_tx_id, sent) ==
  processed_source_tx_ids \cup {source_tx_id}

\* `self.processed_source_tx_ids.add(source_tx_id)` is the statement after
\* send_raw_transaction: it runs only when nothing before it raised.
MarkRelayed(source_tx_id, sent) ==
  IF sent THEN processed_source_tx_ids \cup {source_tx_id}
  ELSE processed_source_tx_ids

\* process_deposit_event.  fail = 0: no call raises; fail = k: the k-th of
\* RelaySteps raises.  rpcs are the destination calls that were made.
process_deposit_event(event, fail) ==
  LET source_tx_id == event.transactionId
      base == [event |-> event, before |-> processed_source_tx_ids,
               result |-> "Skipped", rpcs |-> {},
               after |-> processed_source_tx_ids, broadcasts |-> broadcasts]
  IN  IF IsAlreadyRelayed(source_tx_id) THEN base
      ELSE IF fail = 0
      THEN [base EXCEPT !.result = "Submitted",
                        !.rpcs = Range(RelaySteps),
                        !.after = MarkRelayed(source_tx_id, TRUE),
                        !.broadcasts = Append(broadcasts,
                            [id |-> source_tx_id, nonce |-> destNonce])]
      ELSE [base EXCEPT !.result = "Failed",
                        !.rpcs = { RelaySteps[k] : k \in 1..fail },
                        !.after = MarkRelayed(source_tx_id, FALSE)]

\* the failures the destination node can produce
FailPoints == IF estimateGasBroken THEN 1..4 ELSE 0..Len(RelaySteps)

\* one call of process_deposit_event, as a step
DoRelay(event, fail) ==
  LET r == process_deposit_event(event, fail)
  IN  /\ processed_source_tx_ids' = r.after
      /\ broadcasts' = r.broadcasts
      /\ relayLog' = Append(relayLog,
            [event |-> r.event, result |-> r.result,
             before |-> r.before, after |-> r.after])
      /\ lateCalls' = lateCalls \cup
            IF \E i \in 1..Len(broadcasts) :
                  broadcasts[i].id = event.transactionId
            THEN { [id |-> event.transactionId, rpc |-> c] : c \in r.rpcs }
            ELSE {}

(* ---------------------------- environment ------------------------------ *)

\* The main loop is one thread: the listener reads the source chain only at
\* the start of a cycle, so what the chain does during a cycle is seen there.
BetweenCycles == state = "RUNNING" /\ pc = "poll"

MineBlock ==
  /\ BetweenCycles
  /\ H < MaxHeight
  /\ H' = H + 1
  /\ UNCHANGED << state, pc, emitted, filterQueue, block_confirmations, connected,
                  listenerVars, relayVars, destNonce, estimateGasBroken,
                  monitorVars, now >>

\* the filter sees a log entry of a mined block for the first time
EmitLog(e) ==
  /\ BetweenCycles
  /\ e \notin emitted
  /\ e.blockNumber <= H
  /\ Len(filterQueue) < MaxQueue
  /\ emitted' = emitted \cup {e}
  /\ filterQueue' = Append(filterQueue, e)
  /\ UNCHANGED << state, pc, H, block_confirmations, connected, listenerVars, relayVars,
                  destNonce, estimateGasBroken, monitorVars, now >>

\* the node hands out again an entry it has handed out before
Redeliver(e) ==
  /\ BetweenCycles
  /\ e \in emitted
  /\ e \notin Range(filterQueue)
  /\ Len(filterQueue) < MaxQueue
  /\ filterQueue' = Append(filterQueue, e)
  /\ UNCHANGED << state, pc, H, emitted, block_confirmations, connected, listenerVars,
                  relayVars, destNonce, estimateGasBroken, monitorVars, now >>

\* the destination chain mines the relayer's next transaction; the processor
\* reads the nonce only in process_deposit_event, so the step is placed
\* before a call of it
DestInclude ==
  /\ state = "UNIT" \/ (state = "RUNNING" /\ pc = "relay")
  /\ \E i \in 1..Len(broadcasts) : broadcasts[i].nonce = destNonce
  /\ destNonce' = destNonce + 1
  /\ UNCHANGED << state, pc, srcVars, block_confirmations, connected, listenerVars,
                  relayVars, estimateGasBroken, monitorVars, now >>

(* -------------------------------- main --------------------------------- *)

\* no connector constructed yet
NotConnected == [source |-> FALSE, destination |-> FALSE]

\* no poll made yet in this cycle
NoPoll == [latest_block |-> 0, caught |-> FALSE, events |-> << >>]

\* `except Exception`: log, then monitor.report_status('ERROR', 0, 0)
Fatal(sink) ==
  LET m == report_status("ERROR", sink)
  IN  /\ state' = "FATAL"
      /\ last_checkin' = m.last_checkin
      /\ pushLog' = m.pushLog

\* only the source connector checked
BothConnected_SourceOnly(srcOk, dstOk) == srcOk

\* `if not source_connector.is_connected() or not dest_connector.is_connected()`
\* is false
BothConnected(srcOk, dstOk) == srcOk /\ dstOk

\* load_configuration, the two connectors and the is_connected checks.  A
\* ConfigError is raised before either connector is made.
Startup(cfgOk, srcOk, dstOk) ==
  /\ state = "STARTING"
  /\ state' = IF cfgOk /\ BothConnected(srcOk, dstOk) THEN "RUNNING" ELSE "FATAL"
  /\ pc' = IF cfgOk /\ BothConnected(srcOk, dstOk) THEN "poll" ELSE pc
  /\ connected' = IF cfgOk THEN [source |-> srcOk, destination |-> dstOk]
                  ELSE connected
  /\ UNCHANGED << srcVars, block_confirmations, listenerVars, relayVars,
                  destNonce, estimateGasBroken, monitorVars, now >>

\* `confirmed_events = listener.get_confirmed_events()`
PollStep(conn, fetch, badAt) ==
  /\ state = "RUNNING"
  /\ pc = "poll"
  /\ now < StartTime + MaxCycles * POLL_INTERVAL_SECONDS
  /\ badAt \in 0..Len(filterQueue)
  /\ LET r == get_confirmed_events(conn, fetch, badAt)
     IN  /\ processed_events' = r.processed_events
         /\ confirmed_events' = r.events
         /\ filterQueue' = r.queue
         /\ idx' = 1
         /\ pollLog' = [latest_block |-> r.latest_block, caught |-> r.caught,
                        events |-> r.events]
         /\ skippedDup' = skippedDup \cup r.skipped
         /\ admitted' = admitted \cup
              { [event |-> e,
                 deep |-> r.latest_block - e.blockNumber >= block_confirmations] :
                  e \in Range(r.events) }
         /\ returnedCount' =
              [h \in Hashes |-> returnedCount[h]
                   + Cardinality({ i \in 1..Len(r.events) :
                                     r.events[i].transactionHash = h })]
         /\ seenPending' = seenPending \cup
              { e \in Range(r.scanned) :
                  /\ ~ AlreadyProcessed(e.transactionHash, processed_events)
                  /\ ~ IsConfirmed(r.latest_block, e.blockNumber) }
         /\ IF r.raised
            THEN /\ \E sink \in SinkOutcomes : Fatal(sink)
                 /\ pc' = pc
            ELSE /\ pc' = IF r.events # << >> THEN "relay" ELSE "report"
                 /\ UNCHANGED << state, monitorVars >>
  /\ UNCHANGED << H, emitted, block_confirmations, connected, relayVars, destNonce,
                  estimateGasBroken, now >>

\* `for event in confirmed_events: processor.process_deposit_event(event)`
RelayStep(fail) ==
  /\ state = "RUNNING"
  /\ pc = "relay"
  /\ fail \in FailPoints
  /\ DoRelay(confirmed_events[idx], fail)
  /\ idx' = idx + 1
  /\ pc' = IF idx = Len(confirmed_events) THEN "report" ELSE "relay"
  /\ UNCHANGED << state, srcVars, block_confirmations, connected, processed_events,
                  confirmed_events, pollLog, returnedCount, seenPending,
                  skippedDup, admitted, destNonce, estimateGasBroken, monitorVars, now >>

\* `monitor.report_status('OPERATIONAL', source_connector.get_latest_block_number(), ...)`
\* and `time.sleep(config['POLL_INTERVAL_SECONDS'])`, which ends the cycle.
\* confirmed_events is not read again before the next poll assigns it, and
\* pollLog is the history of the cycle's poll: both are cleared here.
ReportStep(conn, sink) ==
  /\ state = "RUNNING"
  /\ pc = "report"
  /\ LET lb == get_latest_block_number(conn)
         m == report_status("OPERATIONAL", sink)
     IN  IF lb.raised
         THEN /\ Fatal(sink)
              /\ UNCHANGED << pc, now, confirmed_events, idx, pollLog >>
         ELSE /\ last_checkin' = m.last_checkin
              /\ pushLog' = m.pushLog
              /\ state' = state
              /\ now' = now + POLL_INTERVAL_SECONDS
              /\ pc' = "poll"
              /\ confirmed_events' = << >>
              /\ idx' = 1
              /\ pollLog' = NoPoll
  /\ UNCHANGED << srcVars, block_confirmations, connected, processed_events,
                  returnedCount, seenPending, skippedDup, admitted,
                  relayVars, destNonce, estimateGasBroken >>

\* `except KeyboardInterrupt`, the signal arriving during time.sleep
Interrupt ==
  /\ state = "RUNNING"
  /\ pc = "poll"
  /\ now > StartTime
  /\ state' = "SHUTTING_DOWN"
  /\ UNCHANGED << pc, srcVars, block_confirmations, connected, listenerVars, relayVars,
                  destNonce, estimateGasBroken, monitorVars, now >>

(* --------------------------- specifications ---------------------------- *)

Init ==
  /\ state = "STARTING"
  /\ pc = "start"
  /\ H = 1
  /\ emitted = {}
  /\ filterQueue = << >>
  /\ block_confirmations \in 0..MaxDepth
  /\ connected = NotConnected
  /\ processed_events = {}
  /\ confirmed_events = << >>
  /\ idx = 1
  /\ processed_source_tx_ids = {}
  /\ destNonce = 0
  /\ broadcasts = << >>
  /\ estimateGasBroken = FALSE
  /\ last_checkin = 0
  /\ now = StartTime
  /\ pushLog = << >>
  /\ pollLog = NoPoll
  /\ returnedCount = [h \in Hashes |-> 0]
  /\ seenPending = {}
  /\ skippedDup = {}
  /\ admitted = {}
  /\ relayLog = << >>
  /\ lateCalls = {}

Next ==
  \/ \E cfgOk, srcOk, dstOk \in BOOLEAN : Startup(cfgOk, srcOk, dstOk)
  \/ \E conn \in ConnOutcomes, fetch \in FetchOutcomes, badAt \in 0..MaxQueue :
        PollStep(conn, fetch, badAt)
  \/ \E fail \in 0..Len(RelaySteps) : RelayStep(fail)
  \/ \E conn \in ConnOutcomes, sink \in SinkOutcomes : ReportStep(conn, sink)
  \/ Interrupt
  \/ MineBlock
  \/ \E e \in Universe : EmitLog(e)
  \/ \E e \in Universe : Redeliver(e)
  \/ DestInclude

Spec == Init /\ [][Next]_vars

\* The processor alone, constructed and called directly with any event.
RelayCall(event, fail) ==
  /\ state = "UNIT"
  /\ Len(relayLog) < MaxRelayCalls
  /\ fail \in FailPoints
  /\ DoRelay(event, fail)
  /\ UNCHANGED << state, pc, srcVars, block_confirmations, connected, listenerVars,
                  destNonce, estimateGasBroken, monitorVars, now >>

InitUnit ==
  /\ state = "UNIT"
  /\ pc = "unit"
  /\ H = 1
  /\ emitted = {}
  /\ filterQueue = << >>
  /\ block_confirmations = 0
  /\ connected = [source |-> TRUE, destination |-> TRUE]
  /\ processed_events = {}
  /\ confirmed_events = << >>
  /\ idx = 1
  /\ processed_source_tx_ids = {}
  /\ destNonce = 0
  /\ broadcasts = << >>
  /\ estimateGasBroken \in BOOLEAN
  /\ last_checkin = 0
  /\ now = StartTime
  /\ pushLog = << >>
  /\ pollLog = NoPoll
  /\ returnedCount = [h \in Hashes |-> 0]
  /\ seenPending = {}
  /\ skippedDup = {}
  /\ admitted = {}
  /\ relayLog = << >>
  /\ lateCalls = {}

NextRelay ==
  \/ \E event \in Universe, fail \in 0..Len(RelaySteps) : RelayCall(event, fail)
  \/ DestInclude

RelaySpec == InitUnit /\ [][NextRelay]_vars

\* The monitor alone, called directly at any time.
ReportCall(status, sink) ==
  /\ state = "UNIT"
  /\ Len(pushLog) < MaxPushes
  /\ LET m == report_status(status, sink)
     IN  /\ last_checkin' = m.last_checkin
         /\ pushLog' = m.pushLog
  /\ UNCHANGED << state, pc, srcVars, block_confirmations, connected, listenerVars,
                  relayVars, destNonce, estimateGasBroken, now >>

Tick(d) ==
  /\ state = "UNIT"
  /\ now + d <= MaxReportTime
  /\ now' = now + d
  /\ UNCHANGED << state, pc, srcVars, block_confirmations, connected, listenerVars,
                  relayVars, destNonce, estimateGasBroken, monitorVars >>

NextReport ==
  \/ \E status \in {"OPERATIONAL", "ERROR"}, sink \in SinkOutcomes :
        ReportCall(status, sink)
  \/ \E d \in {TickSeconds, checkin_interval} : Tick(d)

ReportSpec == InitUnit /\ [][NextReport]_vars

(* ------------------------------ properties ----------------------------- *)

\* broadcasts the destination accepted for an id
Releases(id) == { i \in 1..Len(broadcasts) : broadcasts[i].id = id }

\* the calls of process_deposit_event made with an id
CallsOf(id) == { i \in 1..Len(relayLog) : relayLog[i].event.transactionId = id }

\* C1: over a whole run of the relayer the destination accepts at most one
\* release broadcast per crossChainTxId.
C1_AtMostOneReleasePerId ==
  \A id \in Ids : Cardinality(Releases(id)) <= 1

\* C1 witness: an id was released once and an event carrying the same id was
\* handed to the processor again.
C1_Witness ==
  \E id \in Ids :
    /\ Cardinality(Releases(id)) = 1
    /\ Cardinality(CallsOf(id)) >= 2

\* C2 as stated: whatever calls are made with one id, exactly one of them
\* returns Submitted, every later one returns Skipped and makes no
\* destination call.
C2_ExactlyOneSubmitted ==
  /\ \A id \in Ids :
       CallsOf(id) # {} =>
         /\ Cardinality({ i \in CallsOf(id) : relayLog[i].result = "Submitted" }) = 1
         /\ \A i, j \in CallsOf(id) :
              (i < j /\ relayLog[i].result = "Submitted")
                 => relayLog[j].result = "Skipped"
  /\ lateCalls = {}

\* C2 amended: of the calls made with one id at most one returns Submitted
\* (none while every call fails); every call after it returns Skipped and
\* makes no nonce query, gas estimate or broadcast.
C2_AtMostOneSubmitted ==
  /\ \A id \in Ids :
       /\ Cardinality({ i \in CallsOf(id) : relayLog[i].result = "Submitted" }) <= 1
       /\ \A i, j \in CallsOf(id) :
            (i < j /\ relayLog[i].result = "Submitted")
               => /\ relayLog[j].result = "Skipped"
                  /\ relayLog[j].after = relayLog[j].before
       /\ Cardinality(Releases(id)) =
            Cardinality({ i \in CallsOf(id) : relayLog[i].result = "Submitted" })
  /\ lateCalls = {}

\* C2 witness: a Submitted call followed by calls with the same id, one with
\* the same sourceTxHash and one with another.
C2_Witness ==
  /\ Len(relayLog) = 3
  /\ relayLog[1].result = "Submitted"
  /\ relayLog[2].event = relayLog[1].event
  /\ relayLog[3].event.transactionId = relayLog[1].event.transactionId
  /\ relayLog[3].event.transactionHash # relayLog[1].event.transactionHash
  /\ relayLog[3].result = "Skipped"

\* C3: every event a poll returns has at least block_confirmations blocks
\* between it and the height that poll read.
C3_ConfirmationGate ==
  \A i \in 1..Len(pollLog.events) :
    pollLog.latest_block - pollLog.events[i].blockNumber >= block_confirmations

\* C3 witness: with a positive depth, a poll returned an event that had
\* exactly the required confirmations, and a poll has held back a younger one.
C3_Witness ==
  /\ block_confirmations >= 1
  /\ \E i \in 1..Len(pollLog.events) :
       /\ pollLog.latest_block - pollLog.events[i].blockNumber = block_confirmations
       /\ \E e \in seenPending : e.blockNumber > pollLog.events[i].blockNumber

\* C4 as stated: an event first seen below the confirmation depth has been
\* returned exactly once as soon as a poll has read a height that confirms it.
C4_PendingEventReturned ==
  \A e \in seenPending :
    ( /\ ~ pollLog.caught
      /\ pollLog.latest_block # 0
      /\ pollLog.latest_block - e.blockNumber >= block_confirmations )
    => returnedCount[e.transactionHash] = 1

\* C5: no sourceTxHash is returned more than once, within one poll result or
\* across the polls of a process.
C5_HashReturnedOnce ==
  \A h \in Hashes : returnedCount[h] <= 1

\* C5 witness: a poll was handed an entry whose hash had been returned, by
\* an earlier poll or earlier in the same batch, and skipped it.
C5_Witness ==
  \E h \in skippedDup : returnedCount[h] = 1

\* C6: a call that fails returns Failed and leaves RelayState and the
\* destination as they were, so the next call with the same event is not
\* skipped; while estimate_gas always fails every call fails and RelayState
\* stays empty.
C6_FailureLeavesRelayState ==
  /\ \A i \in 1..Len(relayLog) :
       relayLog[i].result = "Failed" =>
         /\ relayLog[i].after = relayLog[i].before
         /\ i < Len(relayLog) /\ relayLog[i + 1].event = relayLog[i].event
              => relayLog[i + 1].result # "Skipped"
  /\ Len(broadcasts) =
       Cardinality({ i \in 1..Len(relayLog) : relayLog[i].result = "Submitted" })
  /\ estimateGasBroken =>
       /\ processed_source_tx_ids = {}
       /\ \A i \in 1..Len(relayLog) : relayLog[i].result = "Failed"

\* C6 witness: a call failed and the next call, with the identical event,
\* went through and was accepted.
C6_Witness ==
  \E i \in 1..Len(relayLog) :
    /\ i < Len(relayLog)
    /\ relayLog[i].result = "Failed"
    /\ relayLog[i + 1].event = relayLog[i].event
    /\ relayLog[i + 1].result = "Submitted"

\* the listener would return event e if the filter handed it out at a height
\* that confirms it
Eligible(e) ==
  ScanEntries(<< e >>, e.blockNumber + block_confirmations,
              processed_events, << >>).confirmed_events = << e >>

\* C7 as stated: an event whose relay failed, and that has not been relayed
\* since, is still eligible to be returned by a later poll and so to be handed
\* to the processor again.
C7_FailedEventRetried ==
  \A i \in 1..Len(relayLog) :
    ( /\ relayLog[i].result = "Failed"
      /\ relayLog[i].event.transactionId \notin processed_source_tx_ids
      /\ \A j \in 1..Len(relayLog) : j > i => relayLog[j].event # relayLog[i].event )
    => Eligible(relayLog[i].event)

\* C8 as stated: any two push attempts are at least checkin_interval apart,
\* whatever the health service answered.
C8_OnePushPerInterval ==
  \A i, j \in 1..Len(pushLog) :
    i < j => pushLog[j].t - pushLog[i].t >= checkin_interval

\* C9 as stated: when the loop has ended in FATAL, exactly one ERROR report
\* has been pushed.
C9_ErrorReportOnFatal ==
  (state = "FATAL" /\ pc # "start") =>
    Cardinality({ i \in 1..Len(pushLog) : pushLog[i].status = "ERROR" }) = 1

\* C10: a poll that fails, or that finds the source node unreachable, returns
\* no event, and no poll ends the loop: FATAL is never entered from the poll.
C10_PollNeverRaises ==
  /\ (state = "FATAL" => pc # "poll")
  /\ (pollLog.caught \/ pollLog.latest_block = 0) =>
        (pollLog.events = << >> /\ confirmed_events = << >>)

\* C10 witness: the poll of a later cycle failed and the loop went on to its
\* report step.
C10_Witness ==
  /\ pollLog.caught
  /\ state = "RUNNING"
  /\ pc = "report"
  /\ now > StartTime

\* C11: when either chain was unreachable at startup the process is in
\* FATAL without having entered the loop: no poll, no relay call, no
\* broadcast, no report.
C11_UnreachableAtStartupIsFatal ==
  (state # "STARTING" /\ connected # [source |-> TRUE, destination |-> TRUE])
    => /\ state = "FATAL"
       /\ pc = "start"
       /\ pollLog = NoPoll
       /\ processed_events = {}
       /\ relayLog = << >>
       /\ broadcasts = << >>
       /\ pushLog = << >>

\* C11 witness: the source chain answered and the destination did not, and
\* startup has ended.
C11_Witness ==
  /\ state = "FATAL"
  /\ connected = [source |-> TRUE, destination |-> FALSE]

\* C12 as stated: once in the loop, no failure of a chain or of the health
\* service ends it: FATAL is only ever entered from startup.
C12_RecoverableErrorsKeepRunning ==
  state = "FATAL" => pc = "start"

\* C13 as stated: every hash in processed_events is the hash of an event that
\* a poll has returned.
C13_ProcessedWereReturned ==
  \A h \in processed_events : returnedCount[h] >= 1

\* C14 as stated: the events of one poll result are in ascending order of
\* block number, then of log index.
C14_AscendingBlockOrder ==
  \A i, j \in 1..Len(pollLog.events) :
    i < j =>
      \/ pollLog.events[i].blockNumber < pollLog.events[j].blockNumber
      \/ /\ pollLog.events[i].blockNumber = pollLog.events[j].blockNumber
         /\ pollLog.events[i].logIndex <= pollLog.events[j].logIndex

\* C15: every event handed to the processor, and every release the
\* destination accepted, is for an event that a poll returned after reading a
\* height at least block_confirmations above the event's block.
C15_OnlyAdmittedEventsRelayed ==
  /\ \A i \in 1..Len(relayLog) :
       \E a \in admitted : a.event = relayLog[i].event /\ a.deep
  /\ \A k \in 1..Len(broadcasts) :
       \E a \in admitted : a.event.transactionId = broadcasts[k].id /\ a.deep
  /\ pc = "relay" => confirmed_events = pollLog.events

\* C15 witness: with a positive depth, a release has been accepted.
C15_Witness ==
  /\ block_confirmations >= 1
  /\ broadcasts # << >>

\* C16 as stated: two accepted releases for different ids carry different
\* nonces.
C16_DistinctNonces ==
  \A i, j \in 1..Len(broadcasts) :
    broadcasts[i].id # broadcasts[j].id =>
      broadcasts[i].nonce # broadcasts[j].nonce

====
